---- MODULE Spec2Model ----
(***************************************************************************)
(* Model of examples/interpretation/notebooks/                             *)
(* Dutch_F3_patch_model_training_and_evaluation.ipynb: the notebook's code *)
(* cells executed top to bottom, the ignite trainer/evaluator engines the  *)
(* notebook drives, the checkpoint directory and the random generators.    *)
(* Line numbers in comments are lines of the .ipynb file.                  *)
(***************************************************************************)
EXTENDS Integers, Sequences, FiniteSets, TLC

(***************************************************************************)
(* Bounds of the model (inputs are drawn from sets these numbers size).    *)
(***************************************************************************)
\* N_EVALUATE literals tried in the parameter cell: -1 .. MaxNEval
MaxNEval == 3
\* TRAIN.END_EPOCH and TRAIN.SNAPSHOTS (file and injected): 1 .. MaxEpochs
MaxEpochs == 2
\* number of samples of the training patch set: 1 .. MaxTrainSamples
MaxTrainSamples == 3
\* number of sections of the test1 split; test2 has one more
MinSections == 2

(***************************************************************************)
(* Program constants.                                                      *)
(***************************************************************************)
\* l.254  N_EVALUATE=2 under papermill
PapermillNEvaluate == 2
\* l.564  train_len = 2 under papermill
PapermillTrainLen == 2
\* l.567  train_len = 20 in demo mode
DemoTrainLen == 20
\* l.529-530  data.Subset(train_set, range(3))
PapermillSubset == 3
\* l.292, l.294  demo END_EPOCH and SNAPSHOTS
DemoEpochs == 1
DemoSnapshots == 1
\* l.296, l.298  10 ** -9; learning rates are counted in units of 10^-9
DemoLR == 1
NSaved_two == 1 + 1
\* l.777  n_saved=1
NSaved == 1
SaveInterval_two == 1 + 1
\* l.776  save_interval=1
SaveInterval == 1

(***************************************************************************)
(* Python values: a value carries its type, as isinstance sees it.         *)
(***************************************************************************)
PyInt(n) == [t |-> "int", v |-> n]
PyBool(b) == [t |-> "bool", v |-> IF b THEN 1 ELSE 0]
PyFloat(n) == [t |-> "float", v |-> n]
PyStr == [t |-> "str", v |-> 0]
PyNone == [t |-> "NoneType", v |-> 0]

\* isinstance(x, int): bool is a subclass of int
IsInstanceInt(x) == x.t \in {"int", "bool"}
\* isinstance(x, bool)
IsInstanceBool(x) == x.t = "bool"
\* truth value of a Python value in `if x:`
Truthy(x) == IF x.t \in {"int", "bool", "float"} THEN x.v # 0 ELSE x.t = "str"

\* "sub in s" on Python strings, strings being sequences of characters
PyIn(sub, s) ==
    \E i \in 1..(Len(s) - Len(sub) + 1) : SubSeq(s, i, i + Len(sub) - 1) = sub

\* -(-a // b): the number of batches of a DataLoader over a samples
CeilDiv(a, b) == (a + b - 1) \div b

(***************************************************************************)
(* Strings the notebook and its libraries compare or build.                *)
(***************************************************************************)
hrnet == <<"h","r","n","e","t">>
resnet == <<"r","e","s","n","e","t">>
seg_hrnet == <<"s","e","g","_">> \o hrnet
resnet_unet == resnet \o <<"_","u","n","e","t">>
patch_deconvnet == <<"p","a","t","c","h","_","d","e","c","o","n","v","n","e","t">>
\* modules of cv_lib.segmentation.models a configuration file may name
ModelNames == {seg_hrnet, resnet_unet, patch_deconvnet}
\* l.775  the checkpoint file-name prefix
model_f3_nb == <<"m","o","d","e","l","_","f","3","_","n","b">>
\* l.863, l.865  the stems of the f-strings
SnapshotStemHrnet == model_f3_nb \o <<"_">> \o seg_hrnet
SnapshotStemResnet == model_f3_nb \o <<"_">> \o resnet_unet

\* a file of the checkpoint directory: <stem>_<step>.pth under dir
Path(dir, stem, step) == [dir |-> dir, stem |-> stem, step |-> step]
\* TEST.MODEL_PATH as the configuration file gives it
YamlModelPath == Path("yaml", <<>>, 0)

(***************************************************************************)
(* The code cells in notebook order.                                       *)
(***************************************************************************)
CellOrder_checkpointLate ==
    << "params", "imports", "load_config", "pm_params", "pm_readback", "demo",
       "seed", "validate", "load_arrays", "view", "logging", "augment",
       "loaders", "train_len", "prepare_batch", "model", "trainer", "outdir",
       "handlers", "run", "checkpoint", "tensorboard", "snapshot",
       "load_state", "test_data", "inference", "scores", "plot", "done" >>

CellOrder_snapshotEarly ==
    << "params", "imports", "load_config", "pm_params", "pm_readback", "demo",
       "seed", "validate", "load_arrays", "view", "logging", "augment",
       "loaders", "train_len", "prepare_batch", "model", "trainer", "outdir",
       "handlers", "checkpoint", "snapshot", "run", "tensorboard",
       "load_state", "test_data", "inference", "scores", "plot", "done" >>

CellOrder ==
    << "params", "imports", "load_config", "pm_params", "pm_readback", "demo",
       "seed", "validate", "load_arrays", "view", "logging", "augment",
       "loaders", "train_len", "prepare_batch", "model", "trainer", "outdir",
       "handlers", "checkpoint", "run", "tensorboard", "snapshot",
       "load_state", "test_data", "inference", "scores", "plot", "done" >>

IndexOf(c) == CHOOSE i \in 1..Len(CellOrder) : CellOrder[i] = c
\* the cell executed after cell c
NextCell(c) == CellOrder[IndexOf(c) + 1]

\* cells that only display or define and change none of the modelled state
PassiveCells == {"view", "prepare_batch", "tensorboard", "scores", "plot"}

\* the phase of the orchestration a cell belongs to
PhaseOf(c) ==
    CASE c \in {"params", "imports"} -> "setup"
      [] c \in {"load_config", "pm_params", "pm_readback", "demo", "seed", "validate"}
            -> "config"
      [] c \in {"load_arrays", "view"} -> "arrays"
      [] c \in {"logging", "augment"} -> "augment"
      [] c \in {"loaders", "train_len", "prepare_batch"} -> "loaders"
      [] c = "model" -> "model"
      [] c \in {"trainer", "outdir", "handlers", "checkpoint"} -> "callbacks"
      [] c \in {"run", "tensorboard"} -> "train"
      [] c \in {"snapshot", "load_state", "test_data", "inference"} -> "inference"
      [] OTHER -> "report"

VARIABLES
    pc,          \* the cell to execute next
    err,         \* "none", or the exception that stopped the execution
    phases,      \* the phases begun so far, in order
    P,           \* the notebook parameters of the parameter cell
    pm,          \* papermill, max_epochs, max_snapshots
    config,      \* the yacs configuration object
    vars_nb,     \* scheduler_step, train_len, snapshot_duration, loader lengths
    created,     \* the objects built so far
    optim,       \* the optimizer's lr and the scheduler's arguments
    handlers,    \* the trainer's event handlers, per event, in attach order
    trainer,     \* the training engine
    evaluator,   \* the evaluation engine
    weights,     \* the model's parameters: the number of updates, and their origin
    ckpt,        \* the ModelCheckpoint handler
    disk,        \* the files of the output directory
    rng,         \* torch, numpy and Python random generators
    test         \* the test loader, the sampled subset, results and metrics

vars == << pc, err, phases, P, pm, config, vars_nb, created, optim, handlers,
           trainer, evaluator, weights, ckpt, disk, rng, test >>

(***************************************************************************)
(* Inputs.                                                                 *)
(***************************************************************************)
\* literals a user may write for N_EVALUATE, DEMO and TEST_SPLIT (l.65-69)
NEvalValues ==
    {PyInt(n) : n \in -1..MaxNEval} \cup {PyBool(TRUE), PyFloat(2), PyStr}
DemoValues == {PyBool(TRUE), PyBool(FALSE), PyInt(1), PyNone}
SplitValues == {"test1", "test2", "train"}
ParamInputs ==
    [CONFIG_FILE_isfile : BOOLEAN, N_EVALUATE : NEvalValues,
     DEMO : DemoValues, TEST_SPLIT : SplitValues]

Seeds == {1, 2}
\* the configuration files: the keys of the YAML file the notebook reads
Yamls ==
    [loaded : {TRUE},
     END_EPOCH : 1..MaxEpochs, SNAPSHOTS : 1..MaxEpochs,
     MAX_LR : {20}, MIN_LR : {2},
     AUGMENTATION : BOOLEAN, NAME : ModelNames, SEED : Seeds,
     BATCH_SIZE : {2}, MODEL_PATH : {YamlModelPath}]

NoConfig ==
    [loaded |-> FALSE, END_EPOCH |-> 0, SNAPSHOTS |-> 0, MAX_LR |-> 0,
     MIN_LR |-> 0, AUGMENTATION |-> FALSE, NAME |-> <<>>, SEED |-> 0,
     BATCH_SIZE |-> 0, MODEL_PATH |-> YamlModelPath]

\* samples of the validation patch set
ValSamples == {3}

Unseeded == [seeded |-> FALSE, seed |-> 0]
SeededWith(s) == [seeded |-> TRUE, seed |-> s]

(***************************************************************************)
(* Initial state: a fresh kernel, the parameter cell holding its literals. *)
(***************************************************************************)
Init ==
    /\ pc = "params"
    /\ err = "none"
    /\ phases = << >>
    /\ P \in ParamInputs
    /\ pm = [papermill |-> FALSE, max_epochs |-> 0, max_snapshots |-> 0]
    /\ config = NoConfig
    /\ vars_nb = [scheduler_step |-> 0, train_len |-> 0, snapshot_duration |-> 0,
                  train_loader_len |-> 0, val_loader_len |-> 0]
    /\ created = {}
    /\ optim = [lr |-> 0, start |-> 0, end |-> 0, cycle |-> 0]
    /\ handlers = [ITERATION_STARTED |-> << >>, ITERATION_COMPLETED |-> << >>,
                   EPOCH_COMPLETED |-> << >>]
    /\ trainer = [state |-> "idle", epoch |-> 0, iteration |-> 0, max_epochs |-> 0,
                  epoch_length |-> 0, at |-> "none", h |-> 0, busy |-> FALSE]
    /\ evaluator = [running |-> FALSE, data |-> "none", len |-> 0, batch |-> 0,
                    busy |-> FALSE, runs |-> 0]
    /\ weights = [updates |-> 0, src |-> "none"]
    /\ ckpt = [iteration |-> 0, saved |-> << >>]
    /\ disk = {}
    /\ rng = [torch |-> Unseeded, numpy |-> Unseeded, py |-> Unseeded,
              first |-> [torch |-> "unused", numpy |-> "unused", py |-> "unused"]]
    /\ test = [n |-> 0, sampled |-> FALSE, subset |-> << >>, twin |-> << >>,
               results |-> << >>, updates |-> 0]

(***************************************************************************)
(* Cell sequencing: a cell runs when it is next and nothing has raised;    *)
(* it either completes and hands over to the next cell, or raises.         *)
(***************************************************************************)
AtCell(c) == pc = c /\ err = "none"

\* the phases begun once cell c starts
Begun(c) ==
    IF phases # << >> /\ phases[Len(phases)] = PhaseOf(c)
    THEN phases ELSE Append(phases, PhaseOf(c))

Goto(c) ==
    /\ pc' = NextCell(c)
    /\ err' = "none"
    /\ phases' = Begun(c)

Raise(c, e) ==
    /\ pc' = c
    /\ err' = e
    /\ phases' = Begun(c)

(***************************************************************************)
(* l.60-75  parameter cell                                                 *)
(***************************************************************************)
ParamsOK_anyInt(p) ==
    /\ p.CONFIG_FILE_isfile
    /\ IsInstanceInt(p.N_EVALUATE)
    /\ IsInstanceBool(p.DEMO)
    /\ (p.TEST_SPLIT = "test1" \/ p.TEST_SPLIT = "test2")

\* l.72-75  the four assertions
ParamsOK(p) ==
    /\ p.CONFIG_FILE_isfile
    /\ IsInstanceInt(p.N_EVALUATE) /\ p.N_EVALUATE.v > 0
    /\ IsInstanceBool(p.DEMO)
    /\ (p.TEST_SPLIT = "test1" \/ p.TEST_SPLIT = "test2")

ParamsCell ==
    /\ AtCell("params")
    /\ IF ParamsOK(P) THEN Goto("params") ELSE Raise("params", "AssertionError")
    /\ UNCHANGED << P, pm, config, vars_nb, created, optim, handlers, trainer,
                    evaluator, weights, ckpt, disk, rng, test >>

\* l.117-184  imports
ImportsCell ==
    /\ AtCell("imports")
    /\ Goto("imports")
    /\ UNCHANGED << P, pm, config, vars_nb, created, optim, handlers, trainer,
                    evaluator, weights, ckpt, disk, rng, test >>

\* l.202-203  config = yacs.config.load_cfg(f_read)
LoadConfigCell ==
    /\ AtCell("load_config")
    /\ \E y \in Yamls : config' = y
    /\ Goto("load_config")
    /\ UNCHANGED << P, pm, vars_nb, created, optim, handlers, trainer,
                    evaluator, weights, ckpt, disk, rng, test >>

\* l.238-242  the cell tagged "parameters", followed by the cell papermill
\* injects after it when the notebook runs under papermill
PapermillParamsCell ==
    /\ AtCell("pm_params")
    /\ \/ pm' = [papermill |-> FALSE, max_epochs |-> config.END_EPOCH,
                 max_snapshots |-> config.SNAPSHOTS]
       \/ \E e \in 1..MaxEpochs, s \in 1..MaxEpochs :
             pm' = [papermill |-> TRUE, max_epochs |-> e, max_snapshots |-> s]
    /\ Goto("pm_params")
    /\ UNCHANGED << P, config, vars_nb, created, optim, handlers, trainer,
                    evaluator, weights, ckpt, disk, rng, test >>

\* l.256-267  config.merge_from_list(opts)
ReadbackOpts(c) ==
    [c EXCEPT !.END_EPOCH = pm.max_epochs, !.SNAPSHOTS = pm.max_snapshots]

\* l.252-273  read back the papermill parameters; download_pretrained_model
\* (l.270) concerns MODEL.PRETRAINED, which is not among the keys modelled
ReadbackCell ==
    /\ AtCell("pm_readback")
    /\ P' = IF pm.papermill
            THEN [P EXCEPT !.N_EVALUATE = PyInt(PapermillNEvaluate)] ELSE P
    /\ config' = ReadbackOpts(config)
    /\ Goto("pm_readback")
    /\ UNCHANGED << pm, vars_nb, created, optim, handlers, trainer,
                    evaluator, weights, ckpt, disk, rng, test >>

DemoOpts_keepLR(c) ==
    [c EXCEPT !.END_EPOCH = DemoEpochs, !.SNAPSHOTS = DemoSnapshots]

\* l.290-300  the demo override
DemoOpts(c) ==
    [c EXCEPT !.END_EPOCH = DemoEpochs, !.SNAPSHOTS = DemoSnapshots,
              !.MAX_LR = DemoLR, !.MIN_LR = DemoLR]

\* l.289-300
DemoCell ==
    /\ AtCell("demo")
    /\ config' = IF Truthy(P.DEMO) THEN DemoOpts(config) ELSE config
    /\ Goto("demo")
    /\ UNCHANGED << P, pm, vars_nb, created, optim, handlers, trainer,
                    evaluator, weights, ckpt, disk, rng, test >>

\* l.313-316  torch.manual_seed, np.random.seed; random.seed is not called
SeedCell ==
    /\ AtCell("seed")
    /\ rng' = [rng EXCEPT !.torch = SeededWith(config.SEED),
                          !.numpy = SeededWith(config.SEED)]
    /\ Goto("seed")
    /\ UNCHANGED << P, pm, config, vars_nb, created, optim, handlers, trainer,
                    evaluator, weights, ckpt, disk, test >>

\* l.325-326  print(config); validate_config_paths(config)
ValidateCell ==
    /\ AtCell("validate")
    /\ Goto("validate")
    /\ UNCHANGED << P, pm, config, vars_nb, created, optim, handlers, trainer,
                    evaluator, weights, ckpt, disk, rng, test >>

\* l.357-358  np.load of the training volumes
LoadArraysCell ==
    /\ AtCell("load_arrays")
    /\ created' = created \cup {"train_seismic", "train_labels"}
    /\ Goto("load_arrays")
    /\ UNCHANGED << P, pm, config, vars_nb, optim, handlers, trainer,
                    evaluator, weights, ckpt, disk, rng, test >>

\* l.371, 387-410, 588-593, 817-828, 1026-1035, 1058-1072: cells that display
\* or define
PassiveCell ==
    /\ pc \in PassiveCells
    /\ err = "none"
    /\ Goto(pc)
    /\ UNCHANGED << P, pm, config, vars_nb, created, optim, handlers, trainer,
                    evaluator, weights, ckpt, disk, rng, test >>

SchedulerStep_beforeDemo(c) == pm.max_epochs \div pm.max_snapshots

\* l.431, l.509
SchedulerStep(c) == c.END_EPOCH \div c.SNAPSHOTS

\* l.427-431
LoggingCell ==
    /\ AtCell("logging")
    /\ vars_nb' = [vars_nb EXCEPT !.scheduler_step = SchedulerStep(config)]
    /\ Goto("logging")
    /\ UNCHANGED << P, pm, config, created, optim, handlers, trainer,
                    evaluator, weights, ckpt, disk, rng, test >>

AugmentationOn_always(c) == TRUE

\* l.478  if config.TRAIN.AUGMENTATION:
AugmentationOn(c) == c.AUGMENTATION

\* l.450-484  the augmentation pipelines and the guard
AugmentCell ==
    /\ AtCell("augment")
    /\ IF AugmentationOn(config)
       THEN /\ created' = created \cup {"base_aug", "train_aug", "val_aug"}
            /\ Goto("augment")
       ELSE /\ created' = created \cup {"base_aug"}
            /\ Raise("augment", "NotImplementedError")
    /\ UNCHANGED << P, pm, config, vars_nb, optim, handlers, trainer,
                    evaluator, weights, ckpt, disk, rng, test >>

(***************************************************************************)
(* l.509-546  patch data sets and data loaders                             *)
(***************************************************************************)
\* l.528-532  the samples left in train_set and val_set
TrainSetLen(n) == IF pm.papermill THEN PapermillSubset ELSE n
ValSetLen(v) ==
    IF pm.papermill THEN PapermillSubset
    ELSE IF Truthy(P.DEMO) THEN config.BATCH_SIZE ELSE v

LoadersCell ==
    /\ AtCell("loaders")
    /\ \E n \in 1..MaxTrainSamples, v \in ValSamples :
          vars_nb' = [vars_nb EXCEPT
              !.scheduler_step = SchedulerStep(config),
              !.train_loader_len = CeilDiv(TrainSetLen(n), config.BATCH_SIZE),
              !.val_loader_len = CeilDiv(ValSetLen(v), config.BATCH_SIZE)]
    /\ created' = created \cup {"train_set", "val_set", "train_loader", "val_loader"}
    /\ Goto("loaders")
    /\ UNCHANGED << P, pm, config, optim, handlers, trainer,
                    evaluator, weights, ckpt, disk, rng, test >>

\* l.563-570  the number of batches of one training epoch
TrainLen ==
    IF pm.papermill THEN PapermillTrainLen
    ELSE IF Truthy(P.DEMO) THEN DemoTrainLen
    ELSE vars_nb.train_loader_len

\* l.572
SnapshotDuration(train_len) ==
    IF ~pm.papermill THEN vars_nb.scheduler_step * train_len ELSE train_len

\* l.562-572
TrainLenCell ==
    /\ AtCell("train_len")
    /\ vars_nb' = [vars_nb EXCEPT !.train_len = TrainLen,
                                  !.snapshot_duration = SnapshotDuration(TrainLen)]
    /\ Goto("train_len")
    /\ UNCHANGED << P, pm, config, created, optim, handlers, trainer,
                    evaluator, weights, ckpt, disk, rng, test >>

\* the generator g is drawn from: remember whether it was seeded the first time
Draw(r, g) ==
    IF r.first[g] = "unused"
    THEN [r EXCEPT !.first[g] = IF r[g].seeded THEN "seeded" ELSE "unseeded"]
    ELSE r

\* l.619-648  model, SGD optimizer, cosine annealing scheduler, loss
ModelCell ==
    /\ AtCell("model")
    /\ created' = created \cup {"model", "optimizer", "scheduler", "criterion"}
    /\ weights' = [updates |-> 0, src |-> "init"]
    /\ rng' = Draw(rng, "torch")
    /\ optim' = [lr |-> config.MAX_LR, start |-> config.MAX_LR,
                 end |-> config.MIN_LR, cycle |-> vars_nb.snapshot_duration]
    /\ Goto("model")
    /\ UNCHANGED << P, pm, config, vars_nb, handlers, trainer,
                    evaluator, ckpt, disk, test >>

\* l.669-671  create_supervised_trainer
TrainerCell ==
    /\ AtCell("trainer")
    /\ created' = created \cup {"trainer"}
    /\ Goto("trainer")
    /\ UNCHANGED << P, pm, config, vars_nb, optim, handlers, trainer,
                    evaluator, weights, ckpt, disk, rng, test >>

\* l.696-700  output directory and summary writer
OutdirCell ==
    /\ AtCell("outdir")
    /\ created' = created \cup {"output_dir", "summary_writer"}
    /\ Goto("outdir")
    /\ UNCHANGED << P, pm, config, vars_nb, optim, handlers, trainer,
                    evaluator, weights, ckpt, disk, rng, test >>

\* l.732-756  trainer.add_event_handler / @trainer.on, in source order
Attach(hs, event, h) == [hs EXCEPT ![event] = Append(@, h)]

LoggingHandlers(hs) ==
    Attach(Attach(Attach(Attach(Attach(Attach(Attach(hs,
        "ITERATION_STARTED", "scheduler"),
        "ITERATION_COMPLETED", "log_training_output"),
        "EPOCH_COMPLETED", "log_lr"),
        "ITERATION_COMPLETED", "tb_log_training_output"),
        "ITERATION_COMPLETED", "tb_log_validation_output"),
        "EPOCH_COMPLETED", "log_training_results"),
        "EPOCH_COMPLETED", "log_validation_results")

\* l.718-756
HandlersCell ==
    /\ AtCell("handlers")
    /\ created' = created \cup {"evaluator"}
    /\ handlers' = LoggingHandlers(handlers)
    /\ Goto("handlers")
    /\ UNCHANGED << P, pm, config, vars_nb, optim, trainer,
                    evaluator, weights, ckpt, disk, rng, test >>

\* l.773-784  ModelCheckpoint attached to EPOCH_COMPLETED
CheckpointCell ==
    /\ AtCell("checkpoint")
    /\ created' = created \cup {"checkpoint_handler"}
    /\ ckpt' = [iteration |-> 0, saved |-> << >>]
    /\ handlers' = Attach(handlers, "EPOCH_COMPLETED", "checkpoint_handler")
    /\ Goto("checkpoint")
    /\ UNCHANGED << P, pm, config, vars_nb, optim, trainer,
                    evaluator, weights, disk, rng, test >>

(***************************************************************************)
(* l.800  trainer.run(train_loader, max_epochs=config.TRAIN.END_EPOCH,     *)
(*                    epoch_length=train_len, seed=config.SEED)            *)
(* The ignite engine: per epoch, epoch_length iterations, each firing      *)
(* ITERATION_STARTED, the update and ITERATION_COMPLETED; then the         *)
(* EPOCH_COMPLETED handlers one after the other in attach order.  A        *)
(* handler is an ordinary call: the engine goes on when it has returned.   *)
(***************************************************************************)
InRun == pc = "run" /\ err = "none" /\ trainer.state = "running"

RunSeed_torchOnly(r, s) ==
    [r EXCEPT !.torch = SeededWith(s), !.numpy = SeededWith(s)]

\* the seed argument of l.800: ignite's Engine.run hands it to its
\* manual_seed, which calls random.seed, torch.manual_seed and np.random.seed
RunSeed(r, s) ==
    [r EXCEPT !.torch = SeededWith(s), !.numpy = SeededWith(s), !.py = SeededWith(s)]

RunStart ==
    /\ AtCell("run")
    /\ trainer.state = "idle"
    /\ trainer' = [state |-> "running", epoch |-> 0, iteration |-> 0,
                   max_epochs |-> config.END_EPOCH,
                   epoch_length |-> vars_nb.train_len,
                   at |-> "epoch_start", h |-> 0, busy |-> FALSE]
    /\ rng' = RunSeed(rng, config.SEED)
    /\ phases' = Begun("run")
    /\ UNCHANGED << pc, err, P, pm, config, vars_nb, created, optim, handlers,
                    evaluator, weights, ckpt, disk, test >>

EpochStart ==
    /\ InRun
    /\ trainer.at = "epoch_start"
    /\ trainer' = [trainer EXCEPT !.epoch = @ + 1, !.at = "iter_start"]
    /\ UNCHANGED << pc, err, phases, P, pm, config, vars_nb, created, optim,
                    handlers, evaluator, weights, ckpt, disk, rng, test >>

\* ITERATION_STARTED: the cosine scheduler (l.636-638, attached l.732) divides
\* the event index by cycle_size
SchedulerRaises ==
    /\ \E i \in 1..Len(handlers.ITERATION_STARTED) :
           handlers.ITERATION_STARTED[i] = "scheduler"
    /\ optim.cycle = 0

\* the trainer takes the next batch (augmented by train_aug, l.479) and starts
\* the update
IterationStart ==
    /\ InRun
    /\ trainer.at = "iter_start"
    /\ IF SchedulerRaises
       THEN /\ err' = "ZeroDivisionError"
            /\ trainer' = [trainer EXCEPT !.iteration = @ + 1]
            /\ rng' = rng
       ELSE /\ err' = err
            /\ trainer' = [trainer EXCEPT !.iteration = @ + 1, !.at = "batch",
                                          !.busy = TRUE]
            /\ rng' = Draw(Draw(rng, "torch"), "py")
    /\ UNCHANGED << pc, phases, P, pm, config, vars_nb, created, optim,
                    handlers, evaluator, weights, ckpt, disk, test >>

\* the update is done; ITERATION_COMPLETED loggers (l.735-742) only log
IterationEnd ==
    /\ InRun
    /\ trainer.at = "batch"
    /\ weights' = [weights EXCEPT !.updates = @ + 1]
    /\ trainer' = [trainer EXCEPT
           !.busy = FALSE,
           !.at = IF trainer.iteration % trainer.epoch_length = 0
                  THEN "epoch_completed" ELSE "iter_start",
           !.h = IF trainer.iteration % trainer.epoch_length = 0 THEN 1 ELSE 0]
    /\ UNCHANGED << pc, err, phases, P, pm, config, vars_nb, created, optim,
                    handlers, evaluator, ckpt, disk, rng, test >>

\* the EPOCH_COMPLETED handler the engine is at
CurrentHandler ==
    IF trainer.at \in {"epoch_completed", "in_handler"}
       /\ trainer.h \in 1..Len(handlers.EPOCH_COMPLETED)
    THEN handlers.EPOCH_COMPLETED[trainer.h] ELSE "none"

\* l.738  logging_handlers.log_lr(optimizer)
LogLr ==
    /\ InRun
    /\ trainer.at = "epoch_completed"
    /\ CurrentHandler = "log_lr"
    /\ trainer' = [trainer EXCEPT !.h = @ + 1]
    /\ UNCHANGED << pc, err, phases, P, pm, config, vars_nb, created, optim,
                    handlers, evaluator, weights, ckpt, disk, rng, test >>

\* l.747, l.754  the data each logging handler hands to evaluator.run
EvalData(h) ==
    IF h = "log_training_results" THEN "train_loader" ELSE "val_loader"
EvalLen(h) ==
    IF h = "log_training_results"
    THEN vars_nb.train_loader_len ELSE vars_nb.val_loader_len

\* l.745-747, l.752-754  the handler is entered and calls evaluator.run(loader)
HandlerCallsEvaluator ==
    /\ InRun
    /\ trainer.at = "epoch_completed"
    /\ CurrentHandler \in {"log_training_results", "log_validation_results"}
    /\ trainer' = [trainer EXCEPT !.at = "in_handler"]
    /\ evaluator' = [evaluator EXCEPT !.running = TRUE,
                         !.data = EvalData(CurrentHandler),
                         !.len = EvalLen(CurrentHandler), !.batch = 0]
    /\ UNCHANGED << pc, err, phases, P, pm, config, vars_nb, created, optim,
                    handlers, weights, ckpt, disk, rng, test >>

\* the evaluator engine (l.719-731): inference on one batch, metrics updated
EvaluatorBatchStart ==
    /\ err = "none"
    /\ evaluator.running
    /\ ~evaluator.busy
    /\ evaluator.batch < evaluator.len
    /\ evaluator' = [evaluator EXCEPT !.batch = @ + 1, !.busy = TRUE]
    /\ UNCHANGED << pc, err, phases, P, pm, config, vars_nb, created, optim,
                    handlers, trainer, weights, ckpt, disk, rng, test >>

EvaluatorBatchEnd ==
    /\ err = "none"
    /\ evaluator.running
    /\ evaluator.busy
    /\ evaluator' = [evaluator EXCEPT !.busy = FALSE]
    /\ UNCHANGED << pc, err, phases, P, pm, config, vars_nb, created, optim,
                    handlers, trainer, weights, ckpt, disk, rng, test >>

\* evaluator.run returns to the handler that called it
EvaluatorRunEnd ==
    /\ err = "none"
    /\ evaluator.running
    /\ ~evaluator.busy
    /\ evaluator.batch = evaluator.len
    /\ evaluator' = [evaluator EXCEPT !.running = FALSE, !.runs = @ + 1]
    /\ UNCHANGED << pc, err, phases, P, pm, config, vars_nb, created, optim,
                    handlers, trainer, weights, ckpt, disk, rng, test >>

EvaluatorReturned_detached == TRUE

\* l.747-749, l.754-756  evaluator.run(...) is a call: the statements after it,
\* and the handler's return, come when the evaluator run is over
EvaluatorReturned == ~evaluator.running

\* l.748-749, l.755-756  log_results, log_metrics, return
HandlerReturns ==
    /\ InRun
    /\ trainer.at = "in_handler"
    /\ EvaluatorReturned
    /\ trainer' = [trainer EXCEPT !.at = "epoch_completed", !.h = @ + 1]
    /\ UNCHANGED << pc, err, phases, P, pm, config, vars_nb, created, optim,
                    handlers, evaluator, weights, ckpt, disk, rng, test >>

(***************************************************************************)
(* l.773-784  ModelCheckpoint(output_dir, "model_f3_nb", save_interval=1,  *)
(*            n_saved=1, create_dir=True, require_empty=False), called     *)
(*            with {config.MODEL.NAME: model} on EPOCH_COMPLETED           *)
(***************************************************************************)
\* the file the handler writes: <prefix>_<name>_<global step>.pth, the global
\* step being the engine's iteration counter at the event (the ignite release
\* whose Engine.run takes epoch_length and seed, l.800); this is the name
\* l.863-865 look for after the one demo epoch of train_len iterations
CheckpointPath(tr, c) ==
    Path("output_nb", model_f3_nb \o <<"_">> \o c.NAME, tr.iteration)

\* the files left after writing f and keeping the n_saved newest of the handler
SaveFile(d, f) == {g \in d : g.path # f.path} \cup {f}
RemoveFiles(d, ps) == {g \in d : g.path \notin ps}

CheckpointHandler ==
    /\ InRun
    /\ trainer.at = "epoch_completed"
    /\ CurrentHandler = "checkpoint_handler"
    /\ LET calls == ckpt.iteration + 1
           f == [path |-> CheckpointPath(trainer, config),
                 weights |-> weights.updates, epoch |-> trainer.epoch]
           saved == Append(ckpt.saved, f.path)
           drop == Len(saved) - NSaved
       IN  IF calls % SaveInterval # 0
           THEN /\ ckpt' = [ckpt EXCEPT !.iteration = calls]
                /\ disk' = disk
           ELSE IF drop > 0
           THEN /\ ckpt' = [iteration |-> calls,
                            saved |-> SubSeq(saved, drop + 1, Len(saved))]
                /\ disk' = RemoveFiles(SaveFile(disk, f),
                                       {saved[i] : i \in 1..drop})
           ELSE /\ ckpt' = [iteration |-> calls, saved |-> saved]
                /\ disk' = SaveFile(disk, f)
    /\ trainer' = [trainer EXCEPT !.h = @ + 1]
    /\ UNCHANGED << pc, err, phases, P, pm, config, vars_nb, created, optim,
                    handlers, evaluator, weights, rng, test >>

\* every EPOCH_COMPLETED handler has returned: next epoch, or the run is over
EpochEnd ==
    /\ InRun
    /\ trainer.at = "epoch_completed"
    /\ trainer.h > Len(handlers.EPOCH_COMPLETED)
    /\ trainer.epoch < trainer.max_epochs
    /\ trainer' = [trainer EXCEPT !.at = "epoch_start", !.h = 0]
    /\ UNCHANGED << pc, err, phases, P, pm, config, vars_nb, created, optim,
                    handlers, evaluator, weights, ckpt, disk, rng, test >>

\* trainer.run returns
RunReturn ==
    /\ InRun
    /\ trainer.at = "epoch_completed"
    /\ trainer.h > Len(handlers.EPOCH_COMPLETED)
    /\ trainer.epoch >= trainer.max_epochs
    /\ trainer' = [trainer EXCEPT !.state = "done", !.at = "none", !.h = 0]
    /\ Goto("run")
    /\ UNCHANGED << P, pm, config, vars_nb, created, optim,
                    handlers, evaluator, weights, ckpt, disk, rng, test >>

(***************************************************************************)
(* l.861-873  choose the snapshot to evaluate                              *)
(***************************************************************************)
SnapshotFamily_fallback(name) ==
    IF PyIn(hrnet, name) THEN "hrnet" ELSE "resnet"

\* l.862-867  the family of the model; "none" raises
SnapshotFamily(name) ==
    IF PyIn(hrnet, name) THEN "hrnet"
    ELSE IF PyIn(resnet, name) THEN "resnet"
    ELSE "none"

\* l.863, l.865  model_snapshot_name
SnapshotStep == vars_nb.train_len
ModelSnapshotName(family) ==
    IF family = "hrnet"
    THEN Path("output_nb", SnapshotStemHrnet, SnapshotStep)
    ELSE Path("output_nb", SnapshotStemResnet, SnapshotStep)

SnapshotCell ==
    /\ AtCell("snapshot")
    /\ IF SnapshotFamily(config.NAME) = "none"
       THEN /\ Raise("snapshot", "NotImplementedError")
            /\ config' = config
       ELSE /\ Goto("snapshot")
            /\ config' = [config EXCEPT
                   !.MODEL_PATH = ModelSnapshotName(SnapshotFamily(config.NAME))]
    /\ UNCHANGED << P, pm, vars_nb, created, optim, handlers, trainer,
                    evaluator, weights, ckpt, disk, rng, test >>

\* l.882-885  torch.load(config.TEST.MODEL_PATH); model.load_state_dict
LoadStateCell ==
    /\ AtCell("load_state")
    /\ IF \E f \in disk : f.path = config.MODEL_PATH
       THEN /\ weights' = [updates |-> (CHOOSE f \in disk :
                                           f.path = config.MODEL_PATH).weights,
                           src |-> "checkpoint"]
            /\ Goto("load_state")
       ELSE /\ weights' = weights
            /\ Raise("load_state", "FileNotFoundError")
    /\ UNCHANGED << P, pm, config, vars_nb, created, optim, handlers, trainer,
                    evaluator, ckpt, disk, rng, test >>

(***************************************************************************)
(* l.903-946  test data; l.964-1006  inference over N_EVALUATE sections    *)
(***************************************************************************)
\* sections of the split's test loader (batch_size=1: one section a batch)
NumSections(split) == IF split = "test1" THEN MinSections ELSE MinSections + 1

TestDataCell ==
    /\ AtCell("test_data")
    /\ created' = created \cup {"test_set", "test_loader"}
    /\ test' = [test EXCEPT !.n = NumSections(P.TEST_SPLIT)]
    /\ Goto("test_data")
    /\ UNCHANGED << P, pm, config, vars_nb, optim, handlers, trainer,
                    evaluator, weights, ckpt, disk, rng >>

Sample_withReplacement(o, n, k) == [j \in 1..k |-> (o % n) + 1]

\* random.sample(population, k) over sections 1..n: k distinct sections, in an
\* order the generator's state fixes (o stands for that state)
Sample(o, n, k) == [j \in 1..k |-> ((o + j - 1) % n) + 1]

\* the states the generator g can be in when it is drawn from: fixed by its
\* seed when it was seeded, anything (seeded from the OS at import) when not
GeneratorStates(g, n) == IF g.seeded THEN {g.seed % n} ELSE 0..(n - 1)

\* l.976  test_subset = random.sample(list(test_loader), N_EVALUATE);
\* twin is the subset a second execution with the same inputs picks
InferenceSample ==
    /\ AtCell("inference")
    /\ ~test.sampled
    /\ IF P.N_EVALUATE.v > test.n
       THEN /\ Raise("inference", "ValueError")
            /\ test' = test
            /\ rng' = Draw(rng, "py")
       ELSE /\ \E o1 \in GeneratorStates(rng.py, test.n),
                  o2 \in GeneratorStates(rng.py, test.n) :
                  test' = [test EXCEPT
                      !.sampled = TRUE,
                      !.subset = Sample(o1, test.n, P.N_EVALUATE.v),
                      !.twin = Sample(o2, test.n, P.N_EVALUATE.v)]
            /\ rng' = Draw(rng, "py")
            /\ phases' = Begun("inference")
            /\ UNCHANGED << pc, err >>
    /\ UNCHANGED << P, pm, config, vars_nb, created, optim, handlers, trainer,
                    evaluator, weights, ckpt, disk >>

\* l.985-1006  one pass of the loop: patch_label_2d, running_metrics_split.update,
\* results.append
ScoreSection ==
    /\ AtCell("inference")
    /\ test.sampled
    /\ Len(test.results) < Len(test.subset)
    /\ test' = [test EXCEPT
           !.results = Append(@, test.subset[Len(test.results) + 1]),
           !.updates = @ + 1]
    /\ UNCHANGED << pc, err, phases, P, pm, config, vars_nb, created, optim,
                    handlers, trainer, evaluator, weights, ckpt, disk, rng >>

\* the loop is exhausted
InferenceEnd ==
    /\ AtCell("inference")
    /\ test.sampled
    /\ Len(test.results) = Len(test.subset)
    /\ Goto("inference")
    /\ UNCHANGED << P, pm, config, vars_nb, created, optim, handlers, trainer,
                    evaluator, weights, ckpt, disk, rng, test >>

(***************************************************************************)
(* The notebook executed top to bottom.                                    *)
(***************************************************************************)
Next ==
    \/ ParamsCell
    \/ ImportsCell
    \/ LoadConfigCell
    \/ PapermillParamsCell
    \/ ReadbackCell
    \/ DemoCell
    \/ SeedCell
    \/ ValidateCell
    \/ LoadArraysCell
    \/ PassiveCell
    \/ LoggingCell
    \/ AugmentCell
    \/ LoadersCell
    \/ TrainLenCell
    \/ ModelCell
    \/ TrainerCell
    \/ OutdirCell
    \/ HandlersCell
    \/ CheckpointCell
    \/ RunStart
    \/ EpochStart
    \/ IterationStart
    \/ IterationEnd
    \/ LogLr
    \/ HandlerCallsEvaluator
    \/ EvaluatorBatchStart
    \/ EvaluatorBatchEnd
    \/ EvaluatorRunEnd
    \/ HandlerReturns
    \/ CheckpointHandler
    \/ EpochEnd
    \/ RunReturn
    \/ SnapshotCell
    \/ LoadStateCell
    \/ TestDataCell
    \/ InferenceSample
    \/ ScoreSection
    \/ InferenceEnd

Spec == Init /\ [][Next]_vars

(***************************************************************************)
(* Properties.                                                             *)
(***************************************************************************)
\* the cell c has been executed to its end
Passed(c) == IndexOf(pc) > IndexOf(c)
\* the cell c is where the execution stopped on an exception
StoppedAt(c) == pc = c /\ err # "none"
\* nothing of the configuration load, training, checkpointing or inference
\* has happened
NothingLater ==
    /\ config = NoConfig
    /\ created = {}
    /\ trainer.state = "idle" /\ trainer.iteration = 0
    /\ weights.src = "none"
    /\ disk = {}
    /\ test.results = << >>

\* the parameter values the sentence about the parameter cell names; an
\* "integer" is what isinstance(x, int) accepts, True included
C1_Stated ==
    /\ P.CONFIG_FILE_isfile
    /\ P.N_EVALUATE.t \in {"int", "bool"} /\ P.N_EVALUATE.v >= 1
    /\ P.DEMO.t = "bool"
    /\ P.TEST_SPLIT \in {"test1", "test2"}

\* C1: the parameter cell lets the execution continue if and only if
\* CONFIG_FILE is an existing file, N_EVALUATE is an integer greater than 0,
\* DEMO is a boolean and TEST_SPLIT is "test1" or "test2"; otherwise an
\* assertion fails in that cell and no later step is ever executed.
C1_ParameterGate ==
    /\ Passed("params") => C1_Stated
    /\ StoppedAt("params") => err = "AssertionError" /\ ~C1_Stated
    /\ ~C1_Stated => pc = "params" /\ NothingLater

\* an assertion has stopped a run whose only bad parameter is N_EVALUATE = 0
C1_Witness ==
    /\ StoppedAt("params")
    /\ P.N_EVALUATE = PyInt(0)
    /\ P.CONFIG_FILE_isfile /\ P.DEMO = PyBool(TRUE) /\ P.TEST_SPLIT = "test1"

\* C2: with DEMO true, from the end of the demo cell on - so when the optimizer
\* and the scheduler are built and when trainer.run is called - the
\* configuration has END_EPOCH = 1, SNAPSHOTS = 1, MAX_LR = MIN_LR = 10^-9,
\* whatever the file held and whatever max_epochs / max_snapshots were injected;
\* the optimizer, the scheduler and the run get these values.
C2_DemoBeforeTraining ==
    P.DEMO = PyBool(TRUE) =>
        /\ Passed("demo") =>
              /\ config.END_EPOCH = 1 /\ config.SNAPSHOTS = 1
              /\ config.MAX_LR = 1 /\ config.MIN_LR = 1
        /\ "optimizer" \in created =>
              optim.lr = 1 /\ optim.start = 1 /\ optim.end = 1
        /\ trainer.state # "idle" => trainer.max_epochs = 1

\* a demo run is training although papermill injected two epochs
C2_Witness ==
    /\ P.DEMO = PyBool(TRUE)
    /\ pm.papermill /\ pm.max_epochs = 2 /\ pm.max_snapshots = 2
    /\ trainer.state = "running" /\ trainer.busy

\* C3: with TRAIN.AUGMENTATION false the augmentation cell raises
\* NotImplementedError, before any patch data set, data loader, model,
\* optimizer or engine exists; no training iteration runs, no checkpoint is
\* written.
C3_AugmentationGuard ==
    (config.loaded /\ ~config.AUGMENTATION) =>
        /\ ~Passed("augment")
        /\ StoppedAt("augment") => err = "NotImplementedError"
        /\ created \cap {"train_set", "val_set", "train_loader", "val_loader",
                         "model", "optimizer", "scheduler", "trainer",
                         "evaluator", "checkpoint_handler"} = {}
        /\ trainer.state = "idle" /\ trainer.iteration = 0
        /\ disk = {}

\* the guard has raised
C3_Witness ==
    /\ StoppedAt("augment") /\ err = "NotImplementedError"
    /\ ~config.AUGMENTATION

\* the model name contains neither "hrnet" nor "resnet"
C4_Unsupported ==
    /\ \A i \in 1..(Len(config.NAME) - 4) : SubSeq(config.NAME, i, i + 4) # hrnet
    /\ \A i \in 1..(Len(config.NAME) - 5) : SubSeq(config.NAME, i, i + 5) # resnet

\* C4: at evaluation time a MODEL.NAME containing neither "hrnet" nor "resnet"
\* raises NotImplementedError and nothing after the guard happens:
\* TEST.MODEL_PATH unchanged, no checkpoint loaded, no test data loaded, no
\* section scored; a name containing either raises nothing at the guard.
C4_ModelFamilyGuard ==
    /\ (config.loaded /\ C4_Unsupported) =>
          /\ ~Passed("snapshot")
          /\ StoppedAt("snapshot") => err = "NotImplementedError"
          /\ config.MODEL_PATH = YamlModelPath
          /\ weights.src # "checkpoint"
          /\ "test_loader" \notin created /\ test.n = 0
          /\ test.results = << >>
    /\ StoppedAt("snapshot") => C4_Unsupported

\* the guard has raised after a completed training run
C4_Witness ==
    /\ StoppedAt("snapshot") /\ err = "NotImplementedError"
    /\ trainer.state = "done" /\ config.NAME = patch_deconvnet

\* C5: after the snapshot cell, TEST.MODEL_PATH names a checkpoint file the
\* checkpoint handler of this run wrote and that is still in the output
\* directory: the checkpoint of the last completed training epoch - for every
\* run that passes the guards, any END_EPOCH >= 1.
C5_FineTunedModelEvaluated ==
    Passed("snapshot") =>
        \E f \in disk : /\ f.path = config.MODEL_PATH
                        /\ f.epoch = trainer.epoch
                        /\ trainer.epoch = config.END_EPOCH

\* the points between two epochs, and after trainer.run has returned
C6_BetweenEpochs ==
    trainer.state = "running" /\ trainer.at = "epoch_start" /\ trainer.epoch >= 1
C6_Returned == trainer.state = "done" /\ weights.src = "init"

\* C6: for every epoch k of 1..END_EPOCH, once epoch k is complete and before
\* epoch k+1 starts (or trainer.run returns), the checkpoint handler has been
\* called once for epoch k (k calls in all) and a checkpoint holding the
\* model's current weights is in the output directory.
C6_CheckpointEveryEpoch ==
    /\ (C6_BetweenEpochs \/ C6_Returned) =>
          /\ trainer.epoch \in 1..config.END_EPOCH
          /\ ckpt.iteration = trainer.epoch
          /\ \E f \in disk : /\ f.path.dir = "output_nb"
                             /\ f.epoch = trainer.epoch
                             /\ f.weights = weights.updates
    /\ C6_Returned => trainer.epoch = config.END_EPOCH
    /\ trainer.state = "running" =>
          ckpt.iteration \in {trainer.epoch - 1, trainer.epoch}

\* the first of two epochs is complete and checkpointed, the second not begun
C6_Witness ==
    /\ C6_BetweenEpochs
    /\ trainer.epoch = 1 /\ trainer.max_epochs = 2
    /\ Cardinality(disk) = 1

\* the phases as the overview lists them, after the parameter and import cells
PhaseOrder ==
    << "setup", "config", "arrays", "augment", "loaders", "model", "callbacks",
       "train", "inference", "report" >>

C7_InOrder ==
    /\ Len(phases) <= Len(PhaseOrder)
    /\ \A i \in 1..Len(phases) : phases[i] = PhaseOrder[i]
    /\ test.results # << >> => trainer.state = "done"
    /\ trainer.state # "idle" => "checkpoint_handler" \in created

\* C7: the phases run in one fixed order, each begun once and only after the
\* one before: configuration, arrays, augmentations, loaders,
\* model/optimizer/scheduler, callbacks, training, inference, metrics; no
\* handler is attached once trainer.run has started, no test section is scored
\* before trainer.run has returned.
C7_FixedOrder ==
    /\ []C7_InOrder
    /\ [][trainer.state # "idle" => handlers' = handlers]_vars

\* the whole notebook has run, through every phase
C7_Witness == pc = "done" /\ phases = PhaseOrder /\ test.results # << >>

Distinct(q) == \A i, j \in 1..Len(q) : i # j => q[i] # q[j]
\* the inference cell has come to its end, or has raised
C8_InferenceOver == Passed("inference") \/ StoppedAt("inference")

\* C8 as stated: for every N_EVALUATE that passes the parameter assertion (2
\* under papermill) the inference loop scores N_EVALUATE distinct sections,
\* updates the metrics once a section and ends with N_EVALUATE results.
C8_AlwaysNScored ==
    C8_InferenceOver =>
        /\ Len(test.results) = P.N_EVALUATE.v
        /\ test.updates = P.N_EVALUATE.v
        /\ Distinct(test.results)

\* C8 amended: that holds when N_EVALUATE does not exceed the number of
\* sections of the test loader; when it does, random.sample raises ValueError
\* and no section is scored.
C8_NScoredWhenAvailable ==
    /\ test.updates = Len(test.results)
    /\ Distinct(test.results)
    /\ \A i \in 1..Len(test.results) : test.results[i] \in 1..test.n
    /\ Passed("inference") =>
          /\ P.N_EVALUATE.v <= test.n
          /\ Len(test.results) = P.N_EVALUATE.v
    /\ StoppedAt("inference") =>
          /\ err = "ValueError"
          /\ P.N_EVALUATE.v > test.n
          /\ test.results = << >>

\* a papermill run, N_EVALUATE replaced by 2, has scored its two sections
C8_Witness ==
    /\ Passed("inference") /\ pm.papermill
    /\ Len(test.results) = 2 /\ test.n >= 3

C10_SingleThreaded ==
    /\ [](~(trainer.busy /\ evaluator.busy))
    /\ [](evaluator.running =>
            /\ trainer.state = "running" /\ trainer.at = "in_handler"
            /\ CurrentHandler \in {"log_training_results", "log_validation_results"})
    /\ [][evaluator.running =>
            /\ trainer'.iteration = trainer.iteration
            /\ trainer'.epoch = trainer.epoch
            /\ weights' = weights]_vars

\* the evaluator is on a batch at the end of the first epoch
C10_Witness ==
    /\ evaluator.busy /\ evaluator.data = "val_loader"
    /\ trainer.epoch = 1 /\ trainer.iteration >= 1

\* the value the train_len cell gives train_len (l.562-570), as the modes fix it
C11_TrainLenValue ==
    IF pm.papermill THEN 2
    ELSE IF P.DEMO = PyBool(TRUE) THEN 20
    ELSE vars_nb.train_loader_len

\* train_len has its value, and trainer.run has got it as epoch_length,
\* together with max_epochs = TRAIN.END_EPOCH
C11_Arguments ==
    /\ Passed("train_len") => vars_nb.train_len = C11_TrainLenValue
    /\ trainer.state # "idle" =>
          /\ trainer.epoch_length = vars_nb.train_len
          /\ trainer.max_epochs = config.END_EPOCH
          /\ trainer.iteration <= config.END_EPOCH * vars_nb.train_len

\* the call of trainer.run is over: it has returned, or it has raised
C11_RunOver == Passed("run") \/ (StoppedAt("run") /\ trainer.state # "idle")
\* the iterations the arguments of trainer.run ask for
C11_Expected == config.END_EPOCH * vars_nb.train_len

C12_SnapshotDuration ==
    /\ Passed("train_len") =>
          vars_nb.snapshot_duration =
              IF pm.papermill THEN vars_nb.train_len
              ELSE (config.END_EPOCH \div config.SNAPSHOTS) * vars_nb.train_len
    /\ "scheduler" \in created =>
          /\ optim.cycle = vars_nb.snapshot_duration
          /\ (P.DEMO = PyBool(TRUE) /\ ~pm.papermill) => optim.cycle = 20

\* a demo run without papermill has built its scheduler, the configuration
\* file asking for more snapshots than epochs
C12_Witness ==
    /\ "scheduler" \in created /\ P.DEMO = PyBool(TRUE) /\ ~pm.papermill
    /\ pm.max_epochs = 1 /\ pm.max_snapshots = 2
    /\ optim.cycle = 20

\* C13: the cycle size handed to the scheduler is at least 1 for every
\* configuration with TRAIN.END_EPOCH >= 1, TRAIN.SNAPSHOTS >= 1 and a
\* non-empty training loader, with DEMO true or false, papermill true or false.
C13_CycleAtLeastOne ==
    ( /\ "scheduler" \in created
      /\ config.END_EPOCH >= 1 /\ config.SNAPSHOTS >= 1
      /\ vars_nb.train_loader_len >= 1 ) => optim.cycle >= 1

\* the model-family guard has raised
C14_GuardRaised == pc = "snapshot" /\ err = "NotImplementedError"

C14_TrainedFirst ==
    C14_GuardRaised =>
        /\ C4_Unsupported
        /\ trainer.state = "done"
        /\ trainer.epoch = config.END_EPOCH
        /\ trainer.iteration = config.END_EPOCH * vars_nb.train_len
        /\ ckpt.iteration = config.END_EPOCH
        /\ weights.src = "init"
        /\ \E f \in disk : /\ f.path.dir = "output_nb"
                           /\ f.path.stem = model_f3_nb \o <<"_">> \o config.NAME
                           /\ f.epoch = config.END_EPOCH
                           /\ f.weights = weights.updates

\* C14: the model-family guard raises only after trainer.run has returned:
\* when it raises NotImplementedError for a MODEL.NAME without "hrnet" and
\* "resnet", all TRAIN.END_EPOCH epochs have been trained and checkpointed, the
\* checkpoint of the last epoch is in the output directory, and it stays there
\* after the error.
C14_GuardAfterTraining ==
    /\ []C14_TrainedFirst
    /\ [][C14_GuardRaised => disk' = disk /\ weights' = weights]_vars

\* the guard has raised after two epochs, the second epoch's checkpoint on disk
C14_Witness ==
    /\ C14_GuardRaised /\ config.END_EPOCH = 2
    /\ \E f \in disk : f.epoch = 2 /\ f.path.step = trainer.iteration

\* the checkpoint files in the output directory are at most one, and it is the
\* file the handler wrote at its latest call
C15_OneFile ==
    /\ Cardinality(disk) <= 1
    /\ \A f \in disk :
          /\ f.path.dir = "output_nb"
          /\ f.path.stem = model_f3_nb \o <<"_">> \o config.NAME
          /\ f.epoch = ckpt.iteration
          /\ f.path.step = f.epoch * vars_nb.train_len
    /\ Passed("run") => \E f \in disk : f.epoch = config.END_EPOCH

\* C15: at every point of the run the output directory holds at most one
\* checkpoint file written by the checkpoint handler (n_saved = 1); the call
\* that writes the checkpoint of epoch k+1 removes the checkpoint of epoch k,
\* and after training only the file of the last epoch is there.
C15_AtMostOneCheckpoint ==
    /\ []C15_OneFile
    /\ [][\A f \in disk' \ disk :
             /\ f.epoch = trainer.epoch
             /\ \A g \in disk : g.epoch = f.epoch - 1 /\ g \notin disk']_vars

\* the handler has replaced the first epoch's checkpoint by the second's and
\* the run has not returned yet
C15_Witness ==
    /\ trainer.state = "running" /\ trainer.epoch = 2 /\ ckpt.iteration = 2
    /\ Cardinality(disk) = 1
    /\ \A f \in disk : f.epoch = 2

====
